---------------------------- MODULE Spec2Model ----------------------------
(* A model of the document-signing GUI: the application shell (AppContent),  *)
(* the status screen (DocumentStatus.jsx), the search screen                 *)
(* (DocumentSearch.jsx) and the signing screen (DocumentSigning.jsx).        *)
(* Every React component is a record of its useState cells; an event handler *)
(* is one action up to its first await, and each way its fetch can end is    *)
(* one more action.  Effects run in the step that changes their dependencies.*)
EXTENDS Integers, Sequences, FiniteSets, TLC

VARIABLES
    AppContent,       \* useState cells of AppContent (the application shell)
    DocumentStatus,   \* useState cells of the status screen, and whether it is mounted
    interval,         \* the setInterval handle of the status screen: <<>> or <<closure>>
    fetches,          \* the fetch() calls that have not settled yet, oldest first
    completedSeen,    \* whether the status screen has applied a `completed` response
                      \* for the service and document id that are entered now
    DocumentSearch,   \* useState cells of the search screen, and whether it is mounted
    DocumentSigning   \* useState cells of the signing screen, and whether it is mounted

vars == <<AppContent, DocumentStatus, interval, fetches, completedSeen,
          DocumentSearch, DocumentSigning>>

\* The variables of each screen.
statusVars == <<DocumentStatus, interval, completedSeen>>
screenVars == <<DocumentSearch, DocumentSigning>>

-----------------------------------------------------------------------------
(* Bounds and value sets *)

\* The most fetch() calls that are in flight at once.
MaxInFlight == 2

\* JavaScript null / undefined.
Null == "null"

\* The provider ids the screens know by name.
Services == {"scrive", "docusign", "selfsign"}

\* The list AppContent falls back to when service discovery fails.
DefaultServices == <<"scrive", "docusign", "selfsign">>

\* The lists GET /api/services answers with; the server may support a
\* provider the screens do not know by name.
DiscoveredServices ==
    {<<>>, <<"selfsign">>, <<"docusign", "selfsign">>, <<"adobesign", "selfsign">>,
     DefaultServices}

\* The document ids the provider hands out.
DocIds == {"d1", "d2"}

\* What a user types into a document id box.
DocIdInputs == DocIds \cup {"", " "}

\* The statuses a status endpoint reports.
StatusValues == {"pending", "in_progress", "completed", "cancelled", "failed"}

\* The `detail` of a structured error body; Null stands for a body without one.
Details == {Null, "Not found"}

-----------------------------------------------------------------------------
(* JavaScript helpers *)

\* Whether x is truthy, for the strings and nulls of this model.
truthy(x) == x \notin {Null, ""}

\* String.prototype.trim, on the inputs of this model.
trim(s) == IF s = " " THEN "" ELSE IF s = " d1 " THEN "d1" ELSE s

\* a || b
orElse(a, b) == IF truthy(a) THEN a ELSE b

\* The elements of a sequence.
Range(s) == {s[i] : i \in 1..Len(s)}

\* s without its i-th element.
RemoveAt(s, i) == [j \in 1..(Len(s) - 1) |-> IF j < i THEN s[j] ELSE s[j + 1]]

\* A fetch() that has not settled: what was asked, by which screen instance.
Fetch(op, service, documentId, byTimer) ==
    [op |-> op, service |-> service, documentId |-> documentId,
     byTimer |-> byTimer, orphan |-> FALSE]

\* The in-flight fetches of one kind that still belong to a mounted screen.
Live(op) == {i \in 1..Len(fetches) : fetches[i].op = op /\ ~fetches[i].orphan}

\* Unmounting a screen leaves its fetches running; the setters of its state
\* no longer act, so all that is kept of such a fetch is what its handler
\* passes to setters of AppContent: the service of a sign request.
Orphaned(ops) ==
    [i \in 1..Len(fetches) |->
        IF fetches[i].op \in ops
        THEN [Fetch(fetches[i].op,
                    IF fetches[i].op = "sign" THEN fetches[i].service ELSE Null,
                    Null, FALSE) EXCEPT !.orphan = TRUE]
        ELSE fetches[i]]

-----------------------------------------------------------------------------
(* AppContent: the application shell *)

\* A reset effect that leaves the current service as it is.
keepCurrentService(supportedServices, currentService) == currentService

\* The "reset current service" effect: the service that is current once the
\* effect has run on (supportedServices, currentService).
resetCurrentService(supportedServices, currentService) ==
    IF Len(supportedServices) > 0 /\ currentService \notin Range(supportedServices)
    THEN supportedServices[1]
    ELSE currentService

\* setSupportedServices(list), followed by the effect that depends on it.
setSupportedServices(app, list) ==
    [app EXCEPT !.supportedServices = list,
                !.currentService = resetCurrentService(list, app.currentService)]

-----------------------------------------------------------------------------
(* DocumentStatus.jsx: the status screen *)

\* The useState initialisers of the screen, given the lastDocumentId prop.
DocumentStatusInit(lastDocumentId) ==
    [mounted |-> TRUE,
     documentId |-> orElse(lastDocumentId, ""),
     selectedService |-> "selfsign",
     loading |-> FALSE,
     status |-> <<>>,            \* <<>> is null, <<data>> a status response
     error |-> "",
     autoRefresh |-> FALSE]

\* The screen before it is mounted and after it is torn down.
DocumentStatusGone == [DocumentStatusInit(Null) EXCEPT !.mounted = FALSE]

\* status?.status
statusOf(c) == IF c.status = <<>> THEN Null ELSE c.status[1].status

\* The condition under which the auto-refresh effect starts an interval.
autoRefreshWanted(c) ==
    c.autoRefresh /\ truthy(c.documentId) /\ statusOf(c) # "completed"

\* A cleanup that leaves the interval running.
keepInterval(iv) == iv

\* The cleanup of the auto-refresh effect: clearInterval.
clearInterval(iv) == <<>>

\* The dependency list of the auto-refresh effect.
autoRefreshDeps(c) == <<c.autoRefresh, c.documentId, statusOf(c)>>

\* The auto-refresh effect across a render from old to new: when a dependency
\* changed, the cleanup runs and the effect body may set a new interval whose
\* callback closes over the checkStatus of that render.
autoRefreshEffect(old, new, iv) ==
    IF autoRefreshDeps(old) = autoRefreshDeps(new)
    THEN iv
    ELSE IF autoRefreshWanted(new)
         THEN <<[documentId |-> new.documentId, selectedService |-> new.selectedService]>>
         ELSE clearInterval(iv)

\* A state update of the screen followed by its effects.  The setters of a
\* screen that is no longer mounted do nothing.
renderStatus(new) ==
    IF DocumentStatus.mounted
    THEN /\ DocumentStatus' = new
         /\ interval' = autoRefreshEffect(DocumentStatus, new, interval)
    ELSE UNCHANGED <<DocumentStatus, interval>>

\* The state updates of a settled status fetch: those of a fetch whose screen
\* instance is gone reach no state.
settleStatus(f, new) ==
    IF f.orphan THEN UNCHANGED <<DocumentStatus, interval>> ELSE renderStatus(new)

\* checkStatus, up to its fetch, as the render `c` it closes over sees it.
checkStatus(c, byTimer) ==
    IF ~truthy(trim(c.documentId))
    THEN /\ renderStatus([DocumentStatus EXCEPT !.error = "Please enter a document ID"])
         /\ UNCHANGED fetches
    ELSE /\ Len(fetches) < MaxInFlight
         /\ renderStatus([DocumentStatus EXCEPT !.loading = TRUE, !.error = ""])
         /\ fetches' = Append(fetches,
                IF DocumentStatus.mounted
                THEN Fetch("status", c.selectedService, c.documentId, byTimer)
                ELSE [Fetch("status", Null, Null, FALSE) EXCEPT !.orphan = TRUE])

\* Whether the check-status button can be pressed.
checkStatusEnabled == DocumentStatus.mounted /\ ~DocumentStatus.loading

\* The screen is mounted; the lastDocumentId effect runs once.
mountStatus ==
    /\ ~DocumentStatus.mounted
    /\ DocumentStatus' = DocumentStatusInit(AppContent.lastDocumentId)
    /\ interval' = <<>>
    /\ completedSeen' = FALSE
    /\ UNCHANGED <<AppContent, fetches>>
    /\ UNCHANGED screenVars

\* The screen is torn down: the cleanup of the auto-refresh effect runs.
unmountStatus ==
    /\ DocumentStatus.mounted
    /\ DocumentStatus' = DocumentStatusGone
    /\ interval' = IF interval = <<>> THEN <<>> ELSE clearInterval(interval)
    /\ fetches' = Orphaned({"status"})
    /\ completedSeen' = FALSE
    /\ UNCHANGED AppContent
    /\ UNCHANGED screenVars

\* The parent publishes a new lastDocumentId; the effect copies a truthy one.
setLastDocumentId ==
    \E d \in DocIds :
        /\ AppContent.isAuthenticated
        /\ d # AppContent.lastDocumentId
        /\ AppContent' = [AppContent EXCEPT !.lastDocumentId = d]
        /\ renderStatus([DocumentStatus EXCEPT !.documentId = d])
        /\ completedSeen' = FALSE
        /\ UNCHANGED fetches
        /\ UNCHANGED screenVars

\* The user picks a service in the select.
setSelectedService ==
    \E s \in Range(AppContent.supportedServices) :
        /\ DocumentStatus.mounted
        /\ s # DocumentStatus.selectedService
        /\ renderStatus([DocumentStatus EXCEPT !.selectedService = s])
        /\ completedSeen' = FALSE
        /\ UNCHANGED <<AppContent, fetches>>
        /\ UNCHANGED screenVars

\* The user edits the document id box.
setDocumentId ==
    \E d \in DocIdInputs :
        /\ DocumentStatus.mounted
        /\ d # DocumentStatus.documentId
        /\ renderStatus([DocumentStatus EXCEPT !.documentId = d])
        /\ completedSeen' = FALSE
        /\ UNCHANGED <<AppContent, fetches>>
        /\ UNCHANGED screenVars

\* The user toggles the auto-refresh box, which is rendered only under a
\* status that is not `completed`.
setAutoRefresh ==
    /\ DocumentStatus.mounted
    /\ DocumentStatus.status # <<>>
    /\ statusOf(DocumentStatus) # "completed"
    /\ renderStatus([DocumentStatus EXCEPT !.autoRefresh = ~DocumentStatus.autoRefresh])
    /\ UNCHANGED <<AppContent, fetches, completedSeen>>
    /\ UNCHANGED screenVars

\* The user presses the check-status button.
checkStatus_click ==
    /\ checkStatusEnabled
    /\ checkStatus(DocumentStatus, FALSE)
    /\ UNCHANGED <<AppContent, completedSeen>>
    /\ UNCHANGED screenVars

\* The interval fires and calls the checkStatus it closed over.
interval_tick ==
    /\ interval # <<>>
    /\ checkStatus(interval[1], TRUE)
    /\ UNCHANGED <<AppContent, completedSeen>>
    /\ UNCHANGED screenVars

\* Whether a fetch, or the closure of an interval, asks for the service and
\* document id that are entered now.
isCurrent(f) ==
    /\ f.documentId = DocumentStatus.documentId
    /\ f.selectedService = DocumentStatus.selectedService

\* The statuses the provider may answer for a fetch: the document whose
\* `completed` status was applied stays completed.  The answer to a fetch
\* whose screen instance is gone is read by nobody.
statusAnswers(f) ==
    IF f.orphan
    THEN {"pending"}
    ELSE IF completedSeen
            /\ isCurrent([documentId |-> f.documentId, selectedService |-> f.service])
         THEN {"completed"}
         ELSE StatusValues

\* The status fetch answers 2xx.
checkStatus_ok ==
    \E i \in 1..Len(fetches) : \E st \in statusAnswers(fetches[i]) :
        LET f == fetches[i]
            data == [document_id |-> f.documentId, status |-> st]
        IN  /\ f.op = "status"
            /\ settleStatus(f, [DocumentStatus EXCEPT !.status = <<data>>, !.loading = FALSE])
            /\ completedSeen' =
                   \/ completedSeen
                   \/ /\ st = "completed"
                      /\ ~f.orphan
                      /\ isCurrent([documentId |-> f.documentId, selectedService |-> f.service])
            /\ fetches' = RemoveAt(fetches, i)
            /\ UNCHANGED AppContent
            /\ UNCHANGED screenVars

\* The status fetch answers non-2xx with a structured error body.
checkStatus_notOk ==
    \E i \in 1..Len(fetches) : \E detail \in Details :
        /\ fetches[i].op = "status"
        /\ settleStatus(fetches[i], [DocumentStatus EXCEPT
               !.error = orElse(detail, "Status check failed"),
               !.status = <<>>, !.loading = FALSE])
        /\ fetches' = RemoveAt(fetches, i)
        /\ UNCHANGED <<AppContent, completedSeen>>
        /\ UNCHANGED screenVars

\* The status fetch fails, or its body cannot be parsed.
checkStatus_catch ==
    \E i \in 1..Len(fetches) :
        /\ fetches[i].op = "status"
        /\ settleStatus(fetches[i], [DocumentStatus EXCEPT
               !.error = "Network error occurred", !.status = <<>>, !.loading = FALSE])
        /\ fetches' = RemoveAt(fetches, i)
        /\ UNCHANGED <<AppContent, completedSeen>>
        /\ UNCHANGED screenVars

-----------------------------------------------------------------------------
(* DocumentSearch.jsx: the search screen *)

\* user.email of the logged-in user (AuthContext).
CurrentUser == "me@x.com"

\* The signature records the search endpoint holds for the current user, in
\* the order it lists them: one record per signer.  Two signers share document
\* d1, of whom one has signed.  metadata holds the entries of the object.
SignatureDB ==
    << [id |-> 1, document_id |-> "d1", service |-> "docusign", status |-> "in_progress",
        signer_email |-> "bob@x.com", created_at |-> 3, signed |-> FALSE,
        metadata |-> {<<"title", "Contract">>}],
       [id |-> 2, document_id |-> "d1", service |-> "docusign", status |-> "in_progress",
        signer_email |-> "Ann@x.com", created_at |-> 1, signed |-> TRUE,
        metadata |-> {}],
       [id |-> 3, document_id |-> "d2", service |-> "selfsign", status |-> "completed",
        signer_email |-> "ann@x.com", created_at |-> 2, signed |-> TRUE,
        metadata |-> {<<"title", "Contract">>}] >>

\* The bodies a 2xx search answer carries: {signatures: [...]}, or a body
\* without that key (<<>> here, as `data.signatures || []` reads both alike).
SearchAnswers == {SubSeq(SignatureDB, 1, n) : n \in 0..Len(SignatureDB)}

\* The bodies a 2xx status answer carries: `status` always, `signed` only in
\* some provider shapes.
StatusAnswers ==
    [status : {"pending", "completed", "cancelled"}]
        \cup [status : {"pending", "completed", "cancelled"}, signed : BOOLEAN]

\* What new Date().toISOString() may return.
Times == {"t1", "t2"}

\* The column whose header the user clicks.
SortKeys == {"signer_email"}

\* The columns of the table that have a sort header.
SortColumns == {"document_id", "signer_email", "status", "service", "created_at"}

\* The strings of the model in the order JavaScript's < gives them.
StringOrder ==
    << "", " ", "Ann@x.com", "ann@x.com", "bob@x.com", "cancelled", "completed",
       "d1", "d2", "docusign", "failed", "in_progress", "null", "pending",
       "scrive", "selfsign" >>

\* A toLowerCase that leaves the case of the letters as it is.
toLowerCase_keepingCase(str) == str

\* String.prototype.toLowerCase, on the strings of this model.
toLowerCase(str) == IF str = "Ann@x.com" THEN "ann@x.com" ELSE str

\* The place of a string in JavaScript's order.
rank(str) == CHOOSE i \in 1..Len(StringOrder) : StringOrder[i] = str

\* The useState initialisers of the screen, given the currentService prop.
DocumentSearchInit(currentService) ==
    [mounted |-> TRUE,
     searchCriteria |-> [document_id |-> "", signer_email |-> "", status |-> "",
                         service |-> currentService],
     results |-> <<>>,
     loading |-> FALSE,
     error |-> "",
     pdfViewerData |-> <<>>,     \* <<>> is null
     sortConfig |-> [key |-> Null, direction |-> "asc"],
     expandedMetadata |-> {}]

\* The screen while its tab is not shown.
DocumentSearchGone == [DocumentSearchInit(Null) EXCEPT !.mounted = FALSE]

\* The fetch kinds of the search screen.
SearchOps == {"search", "update", "delete", "view"}

\* The one fetch of the search screen that is in flight for the mounted
\* instance, if any.
searchFetch(op) == {i \in 1..Len(fetches) : fetches[i].op = op /\ ~fetches[i].orphan}

\* The comparator of sortResults: what a's and b's values under `key` become
\* before they are compared.
sortValue(signature, key) ==
    IF key = "created_at"
    THEN signature[key]                      \* new Date(value), an instant
    ELSE rank(toLowerCase(signature[key]))   \* a string, lower-cased

\* A comparator that orders ascending whatever the direction.
compare_ascendingOnly(a, b, key, direction) ==
    IF sortValue(a, key) < sortValue(b, key) THEN -1
    ELSE IF sortValue(a, key) > sortValue(b, key) THEN 1
         ELSE 0

\* The comparator of sortResults.
compare(a, b, key, direction) ==
    IF sortValue(a, key) < sortValue(b, key)
    THEN (IF direction = "asc" THEN -1 ELSE 1)
    ELSE IF sortValue(a, key) > sortValue(b, key)
         THEN (IF direction = "asc" THEN 1 ELSE -1)
         ELSE 0

\* x put into the sorted sequence s behind every element it does not precede.
RECURSIVE insertSorted(_, _, _, _)
insertSorted(x, s, key, direction) ==
    IF s = <<>> THEN <<x>>
    ELSE IF compare(x, s[Len(s)], key, direction) < 0
         THEN Append(insertSorted(x, SubSeq(s, 1, Len(s) - 1), key, direction), s[Len(s)])
         ELSE Append(s, x)

\* A sort that keeps one row of the rows that compare equal.
RECURSIVE sorted_withoutTies(_, _, _)
sorted_withoutTies(s, key, direction) ==
    IF s = <<>> THEN <<>>
    ELSE LET rest == sorted_withoutTies(SubSeq(s, 1, Len(s) - 1), key, direction)
         IN  IF \E j \in 1..Len(rest) : compare(s[Len(s)], rest[j], key, direction) = 0
             THEN rest
             ELSE insertSorted(s[Len(s)], rest, key, direction)

\* [...results].sort(comparator): Array.prototype.sort is stable.
RECURSIVE sorted(_, _, _)
sorted(s, key, direction) ==
    IF s = <<>> THEN <<>>
    ELSE insertSorted(s[Len(s)], sorted(SubSeq(s, 1, Len(s) - 1), key, direction),
                      key, direction)

\* A query string without the handler.
queryParams_withoutHandler(criteria) ==
    LET keys == <<"document_id", "signer_email", "status", "service">>
        given == SelectSeq(keys, LAMBDA k : truthy(criteria[k]) /\ truthy(trim(criteria[k])))
    IN  [i \in 1..Len(given) |-> <<given[i], trim(criteria[given[i]])>>]

\* A query string without the service.
queryParams_withoutService(criteria) ==
    LET keys == <<"document_id", "signer_email", "status">>
        given == SelectSeq(keys, LAMBDA k : truthy(criteria[k]) /\ truthy(trim(criteria[k])))
    IN  <<<<"handler", CurrentUser>>>> \o
        [i \in 1..Len(given) |-> <<given[i], trim(criteria[given[i]])>>]

\* A query string of the values as they were typed.
queryParams_untrimmed(criteria) ==
    LET keys == <<"document_id", "signer_email", "status", "service">>
        given == SelectSeq(keys, LAMBDA k : truthy(criteria[k]))
    IN  <<<<"handler", CurrentUser>>>> \o
        [i \in 1..Len(given) |-> <<given[i], criteria[given[i]]>>]

\* The query string of handleSearch: handler first, then every criterion whose
\* value is not blank, trimmed.
queryParams(criteria) ==
    LET keys == <<"document_id", "signer_email", "status", "service">>
        given == SelectSeq(keys, LAMBDA k : truthy(criteria[k]) /\ truthy(trim(criteria[k])))
    IN  <<<<"handler", CurrentUser>>>> \o
        [i \in 1..Len(given) |-> <<given[i], trim(criteria[given[i]])>>]

\* A merge that writes the refreshed document over every row.
mergeStatus_everyRow(signature, statusData, documentId, service, now) ==
    [k \in DOMAIN signature \cup {"status", "signed", "updated_at", "last_status_check"} |->
        CASE k = "status" ->
                IF "status" \in DOMAIN statusData THEN statusData.status ELSE Null
          [] k = "signed" ->
                IF "signed" \in DOMAIN statusData /\ statusData.signed = TRUE
                THEN TRUE ELSE FALSE
          [] k \in {"updated_at", "last_status_check"} -> now
          [] k = "document_id" -> documentId
          [] k = "service" -> service
          [] OTHER -> signature[k]]

\* A merge that also keeps the status the row had before it.
mergeStatus_keepingPrevious(signature, statusData, documentId, service, now) ==
    IF signature.document_id = documentId /\ signature.service = service
    THEN [k \in DOMAIN signature \cup {"status", "signed", "updated_at",
                                       "last_status_check", "previous_status"} |->
            CASE k = "status" ->
                    IF "status" \in DOMAIN statusData THEN statusData.status ELSE Null
              [] k = "signed" ->
                    IF "signed" \in DOMAIN statusData /\ statusData.signed = TRUE
                    THEN TRUE ELSE FALSE
              [] k \in {"updated_at", "last_status_check"} -> now
              [] k = "previous_status" -> signature.status
              [] OTHER -> signature[k]]
    ELSE signature

\* One record of prevResults.map in handleUpdateStatus.
mergeStatus(signature, statusData, documentId, service, now) ==
    IF signature.document_id = documentId /\ signature.service = service
    THEN [k \in DOMAIN signature \cup {"status", "signed", "updated_at", "last_status_check"} |->
            CASE k = "status" ->
                    IF "status" \in DOMAIN statusData THEN statusData.status ELSE Null
              [] k = "signed" ->
                    IF "signed" \in DOMAIN statusData /\ statusData.signed = TRUE
                    THEN TRUE ELSE FALSE
              [] k \in {"updated_at", "last_status_check"} -> now
              [] OTHER -> signature[k]]
    ELSE signature

\* A delete that takes away every row of the document of the row.
withoutDocumentOf(results, signatureId) ==
    SelectSeq(results, LAMBDA signature :
        \A other \in Range(results) :
            other.id = signatureId => signature.document_id # other.document_id)

\* prevResults.filter in handleDeleteSignature.
withoutSignature(results, signatureId) ==
    SelectSeq(results, LAMBDA signature : signature.id # signatureId)

\* `${errorData.detail}` in a template string.
inTemplate(detail) == IF detail = Null THEN "undefined" ELSE detail

\* A settled fetch of the search screen writes the screen's state, unless the
\* instance that issued it is gone.
settleSearch(i, new) ==
    /\ DocumentSearch' = IF fetches[i].orphan THEN DocumentSearch ELSE new
    /\ fetches' = RemoveAt(fetches, i)
    /\ UNCHANGED <<AppContent, statusVars, DocumentSigning>>

\* An expansion that shows the metadata of one row at a time.
toggled_oneAtATime(expanded, signatureId) ==
    IF signatureId \in expanded THEN {} ELSE {signatureId}

\* The set toggleMetadata puts in place of the expanded ids.
toggled(expanded, signatureId) ==
    IF signatureId \in expanded
    THEN expanded \ {signatureId}
    ELSE expanded \cup {signatureId}

\* toggleMetadata(signatureId) of the row r, which has the button while its
\* metadata has entries.
toggleMetadataOf(r) ==
    /\ DocumentSearch.mounted
    /\ r \in 1..Len(DocumentSearch.results)
    /\ DocumentSearch.results[r].metadata # {}
    /\ DocumentSearch' = [DocumentSearch EXCEPT
           !.expandedMetadata = toggled(@, DocumentSearch.results[r].id)]
    /\ UNCHANGED <<AppContent, statusVars, fetches, DocumentSigning>>

\* The user clicks the metadata button of a row.
toggleMetadata == \E r \in 1..Len(DocumentSearch.results) : toggleMetadataOf(r)

\* What the user enters into the named inputs of the search form.
CriteriaInputs == [document_id |-> {" ", "d1"}]

\* The user edits an input of the search form.
handleInputChange ==
    \E name \in DOMAIN CriteriaInputs : \E value \in CriteriaInputs[name] :
        /\ DocumentSearch.mounted
        /\ DocumentSearch' = [DocumentSearch EXCEPT
               !.searchCriteria[name] = value, !.error = ""]
        /\ UNCHANGED <<AppContent, statusVars, fetches, DocumentSigning>>

\* A search that keeps showing the rows of the search before it.
searchStarted_keepingResults(c) ==
    [c EXCEPT !.loading = TRUE, !.error = "",
              !.sortConfig = [key |-> Null, direction |-> "asc"],
              !.expandedMetadata = {}]

\* What handleSearch does to the screen before it awaits the fetch.
searchStarted(c) ==
    [c EXCEPT !.loading = TRUE, !.error = "", !.results = <<>>,
              !.sortConfig = [key |-> Null, direction |-> "asc"],
              !.expandedMetadata = {}]

\* The user submits the search form.
handleSearch ==
    /\ DocumentSearch.mounted
    /\ ~DocumentSearch.loading
    /\ Len(fetches) < MaxInFlight
    /\ DocumentSearch' = searchStarted(DocumentSearch)
    /\ fetches' = Append(fetches,
           [op |-> "search", orphan |-> FALSE,
            query |-> queryParams(DocumentSearch.searchCriteria),
            before |-> DocumentSearch.results])
    /\ UNCHANGED <<AppContent, statusVars, DocumentSigning>>

\* The search answers 2xx.
handleSearch_ok ==
    \E i \in searchFetch("search") : \E signatures \in SearchAnswers :
        settleSearch(i, [DocumentSearch EXCEPT !.results = signatures, !.loading = FALSE])

\* The search of fetch i ends with the error message `message`.
handleSearch_failed(i, message) ==
    settleSearch(i, [DocumentSearch EXCEPT !.error = message, !.loading = FALSE])

\* The search answers non-2xx with a structured error body.
handleSearch_notOk ==
    \E i \in searchFetch("search") : \E detail \in Details :
        handleSearch_failed(i, orElse(detail, "Search failed"))

\* The search fails, or its body cannot be parsed.
handleSearch_catch ==
    \E i \in searchFetch("search") :
        handleSearch_failed(i, "Network error occurred")

\* The user presses Update on a row, which is offered while the row's status
\* is not `completed`.
handleUpdateStatus ==
    \E r \in 1..Len(DocumentSearch.results) :
        LET signature == DocumentSearch.results[r] IN
        /\ DocumentSearch.mounted
        /\ toLowerCase(signature.status) # "completed"
        /\ ~DocumentSearch.loading
        /\ Len(fetches) < MaxInFlight
        /\ DocumentSearch' = [DocumentSearch EXCEPT !.loading = TRUE]
        /\ fetches' = Append(fetches,
               [op |-> "update", orphan |-> FALSE,
                documentId |-> signature.document_id, service |-> signature.service])
        /\ UNCHANGED <<AppContent, statusVars, DocumentSigning>>

\* A refresh that leaves only the refreshed rows in the table.
handleUpdateStatus_keepingMatches(i, statusData, now) ==
    settleSearch(i, [DocumentSearch EXCEPT
        !.results = SelectSeq(
            [r \in 1..Len(DocumentSearch.results) |->
                mergeStatus(DocumentSearch.results[r], statusData,
                            fetches[i].documentId, fetches[i].service, now)],
            LAMBDA signature : signature.document_id = fetches[i].documentId
                               /\ signature.service = fetches[i].service),
        !.error = "", !.loading = FALSE])

\* The status fetch i of a row answers 2xx with statusData at time `now`.
handleUpdateStatus_merged(i, statusData, now) ==
    settleSearch(i, [DocumentSearch EXCEPT
        !.results = [r \in 1..Len(DocumentSearch.results) |->
                        mergeStatus(DocumentSearch.results[r], statusData,
                                    fetches[i].documentId, fetches[i].service, now)],
        !.error = "", !.loading = FALSE])

\* The status fetch of a row answers 2xx.
handleUpdateStatus_ok ==
    \E i \in searchFetch("update") : \E statusData \in StatusAnswers : \E now \in Times :
        handleUpdateStatus_merged(i, statusData, now)

\* The status fetch of a row answers non-2xx with a structured error body.
handleUpdateStatus_notOk ==
    \E i \in searchFetch("update") : \E detail \in Details :
        settleSearch(i, [DocumentSearch EXCEPT
            !.error = "Failed to update status: " \o inTemplate(detail),
            !.loading = FALSE])

\* The status fetch of a row fails, or its body cannot be parsed.
handleUpdateStatus_catch ==
    \E i \in searchFetch("update") :
        settleSearch(i, [DocumentSearch EXCEPT
            !.error = "Network error occurred while updating status",
            !.loading = FALSE])

\* The user presses Delete on a row and declines the confirmation.
handleDeleteSignature_declined ==
    /\ DocumentSearch.mounted
    /\ DocumentSearch.results # <<>>
    /\ ~DocumentSearch.loading
    /\ UNCHANGED vars

\* A delete that takes the row away before the answer is there.
deleteStarted_optimistic(c, signatureId) ==
    [c EXCEPT !.loading = TRUE, !.results = withoutSignature(c.results, signatureId)]

\* What handleDeleteSignature does to the screen before it awaits the fetch.
deleteStarted(c, signatureId) == [c EXCEPT !.loading = TRUE]

\* A handler that goes on whatever the confirmation dialog answers.
confirmed_whateverTheAnswer(answer) == TRUE

\* window.confirm(...): whether the handler goes on after the dialog.
confirmed(answer) == answer

\* The user presses Delete on row r and the dialog is past: the request is
\* issued.  The request remembers what the dialog answered.
handleDeleteSignature_confirmed(r, answer) ==
    /\ DocumentSearch.mounted
    /\ ~DocumentSearch.loading
    /\ Len(fetches) < MaxInFlight
    /\ DocumentSearch' = deleteStarted(DocumentSearch, DocumentSearch.results[r].id)
    /\ fetches' = Append(fetches,
           [op |-> "delete", orphan |-> FALSE,
            signatureId |-> DocumentSearch.results[r].id,
            confirmed |-> answer])
    /\ UNCHANGED <<AppContent, statusVars, DocumentSigning>>

\* The user presses Delete on a row and answers the confirmation dialog.
handleDeleteSignature ==
    \E r \in 1..Len(DocumentSearch.results) : \E answer \in BOOLEAN :
        IF confirmed(answer)
        THEN handleDeleteSignature_confirmed(r, answer)
        ELSE handleDeleteSignature_declined

\* The delete of fetch i answers 2xx.
handleDeleteSignature_removed(i) ==
    settleSearch(i, [DocumentSearch EXCEPT
        !.results = withoutSignature(DocumentSearch.results, fetches[i].signatureId),
        !.loading = FALSE])

\* The delete answers 2xx.
handleDeleteSignature_ok ==
    \E i \in searchFetch("delete") : handleDeleteSignature_removed(i)

\* The delete of fetch i ends with the error message `message`.
handleDeleteSignature_failed(i, message) ==
    settleSearch(i, [DocumentSearch EXCEPT !.error = message, !.loading = FALSE])

\* The delete answers non-2xx with a structured error body.
handleDeleteSignature_notOk ==
    \E i \in searchFetch("delete") : \E detail \in Details :
        handleDeleteSignature_failed(i, "Failed to delete signature: " \o inTemplate(detail))

\* The delete fails, or its error body cannot be parsed.
handleDeleteSignature_catch ==
    \E i \in searchFetch("delete") :
        handleDeleteSignature_failed(i, "Network error occurred while deleting signature")

\* The user presses View on a row.
handleViewDocument ==
    \E r \in 1..Len(DocumentSearch.results) :
        /\ DocumentSearch.mounted
        /\ ~DocumentSearch.loading
        /\ Len(fetches) < MaxInFlight
        /\ DocumentSearch' = [DocumentSearch EXCEPT !.loading = TRUE]
        /\ fetches' = Append(fetches,
               [op |-> "view", orphan |-> FALSE,
                documentId |-> DocumentSearch.results[r].document_id,
                service |-> DocumentSearch.results[r].service])
        /\ UNCHANGED <<AppContent, statusVars, DocumentSigning>>

\* The download answers 2xx: the PDF viewer opens on the blob.
handleViewDocument_ok ==
    \E i \in searchFetch("view") :
        settleSearch(i, [DocumentSearch EXCEPT
            !.pdfViewerData = <<[documentId |-> fetches[i].documentId,
                                 service |-> fetches[i].service]>>,
            !.loading = FALSE])

\* The download answers non-2xx with a structured error body.
handleViewDocument_notOk ==
    \E i \in searchFetch("view") : \E detail \in Details :
        settleSearch(i, [DocumentSearch EXCEPT
            !.error = "Failed to download document: " \o inTemplate(detail),
            !.loading = FALSE])

\* The download fails, or its error body cannot be parsed.
handleViewDocument_catch ==
    \E i \in searchFetch("view") :
        settleSearch(i, [DocumentSearch EXCEPT
            !.error = "Network error occurred while downloading document",
            !.loading = FALSE])

\* The user closes the PDF viewer.
closePdfViewer ==
    /\ DocumentSearch.mounted
    /\ DocumentSearch.pdfViewerData # <<>>
    /\ DocumentSearch' = [DocumentSearch EXCEPT !.pdfViewerData = <<>>]
    /\ UNCHANGED <<AppContent, statusVars, fetches, DocumentSigning>>

\* A fetch of a search screen instance that is gone settles: nothing is written.
searchOrphan_settled ==
    \E i \in 1..Len(fetches) :
        /\ fetches[i].op \in SearchOps
        /\ fetches[i].orphan
        /\ settleSearch(i, DocumentSearch)

\* A direction that flips at every click, whatever the column.
nextDirection_flipping(sortConfig, key) ==
    IF sortConfig.direction = "asc" THEN "desc" ELSE "asc"

\* The direction sortResults takes for a click on the header of `key`.
nextDirection(sortConfig, key) ==
    IF sortConfig.key = key /\ sortConfig.direction = "asc" THEN "desc" ELSE "asc"

\* sortResults(key): the table, and with it the headers, is there while
\* there are results.
sortResultsBy(key) ==
    LET direction == nextDirection(DocumentSearch.sortConfig, key)
    IN  /\ DocumentSearch.mounted
        /\ Len(DocumentSearch.results) > 0
        /\ DocumentSearch' = [DocumentSearch EXCEPT
               !.results = sorted(DocumentSearch.results, key, direction),
               !.sortConfig = [key |-> key, direction |-> direction]]
        /\ UNCHANGED <<AppContent, statusVars, fetches, DocumentSigning>>

\* The user clicks the header of the signer column.
sortResults == \E key \in SortKeys : sortResultsBy(key)

\* The user clicks the header of any column.
sortResults_column == \E key \in SortColumns : sortResultsBy(key)

\* The user clicks the document id of a row.
handleDocumentSelect ==
    \E r \in 1..Len(DocumentSearch.results) :
        /\ DocumentSearch.mounted
        /\ AppContent' = [AppContent EXCEPT
               !.lastDocumentId = DocumentSearch.results[r].document_id]
        /\ UNCHANGED <<statusVars, fetches, screenVars>>

-----------------------------------------------------------------------------
(* DocumentSigning.jsx: the signing screen *)

\* The MIME types of the files a user picks; Null is a dialog closed without one.
FileTypes == {Null, "application/pdf", "text/plain"}

\* What the user enters into the inputs of a signer row.
SignerInputs == [signer_name |-> {"", "Ann"}, signer_email |-> {"", "ann@x.com"}]

\* The most signer rows the form holds.
MaxSigners == 2

\* A service-change effect that clears nothing.
serviceChanged_keeping(c) == c

\* A submission that keeps showing the result of the submission before it.
submitStarted_keepingResult(c) == [c EXCEPT !.loading = TRUE, !.error = ""]

\* A signer row as addSigner and the initial state create it.
emptySigner == [signer_name |-> "", signer_email |-> "", mode |-> "DIRECT_SIGNING"]

\* The signing URL a provider issues for a document.
signingUrlOf(documentId) == "https://sign/" \o documentId

\* One entry of signing_urls in a sign answer.
signerUrl(email, url, signed) ==
    [signer_email |-> email, signing_url |-> url, signed |-> signed]

\* The signing_urls a 2xx sign answer carries for document d: a synchronous
\* provider answers a signer without a URL, signed or (a shape that leaves
\* the completion out) not marked signed; an asynchronous one
\* answers a first signer with a URL (direct signing) or without one (e-mail
\* notification), a second signer with a URL behind a first without one, or
\* no entries.
SigningUrls(service, d) ==
    IF service = "selfsign"
    THEN {<<signerUrl("ann@x.com", Null, TRUE)>>,
          <<signerUrl("ann@x.com", Null, FALSE)>>}
    ELSE {<<signerUrl("ann@x.com", signingUrlOf(d), FALSE)>>,
          <<signerUrl("ann@x.com", Null, FALSE)>>,
          <<signerUrl("ann@x.com", Null, FALSE),
            signerUrl("bob@x.com", signingUrlOf(d), FALSE)>>,
          <<>>}

\* The bodies a 2xx sign answer carries for a request to `service`.
SignAnswers(service) ==
    UNION {{[document_id |-> d, service |-> service,
             status |-> IF service = "selfsign" THEN "completed" ELSE "pending",
             completed_at |-> IF service = "selfsign" /\ urls[1].signed
                              THEN "t1" ELSE Null,
             signing_urls |-> urls] : urls \in SigningUrls(service, d)} :
           d \in DocIds}

\* getServiceIcon: the icon shown for a provider id.
getServiceIcon(service) ==
    CASE service = "scrive" -> "memo"
      [] service = "docusign" -> "page"
      [] service = "selfsign" -> "lock"
      [] OTHER -> "clipboard"

\* getServiceName: the name shown for a provider id.
getServiceName(service) ==
    CASE service = "scrive" -> "Scrive"
      [] service = "docusign" -> "DocuSign"
      [] service = "selfsign" -> "Self-Sign"
      [] OTHER -> service

\* isServiceCompleted: the services that sign within the request.
isServiceCompleted(service) == service = "selfsign"

\* Which summary the result block renders: none without a result, else the
\* completed one or the pending one with the signing links.
resultPresentation(currentService, result) ==
    IF result = <<>> THEN "none"
    ELSE IF isServiceCompleted(currentService) THEN "completed"
    ELSE "pending"

\* A success path that publishes whatever the first signer's entry holds.
publishedSigningUrl_ofFirstSigner(previous, data) ==
    IF Len(data.signing_urls) > 0 THEN data.signing_urls[1].signing_url ELSE previous

\* What lastSigningUrl is after a 2xx sign answer `data`.
publishedSigningUrl(previous, data) ==
    IF Len(data.signing_urls) > 0 /\ truthy(data.signing_urls[1].signing_url)
    THEN data.signing_urls[1].signing_url
    ELSE previous

\* The useState initialisers of the screen.
DocumentSigningInit ==
    [mounted |-> TRUE,
     file |-> Null,
     signers |-> <<emptySigner>>,
     metadata |-> [title |-> "", custom_fields |-> <<>>],
     customFields |-> <<>>,
     loading |-> FALSE,
     result |-> <<>>,            \* <<>> is null, <<data>> a sign response
     error |-> ""]

\* The screen while its tab is not shown.
DocumentSigningGone == [DocumentSigningInit EXCEPT !.mounted = FALSE]

\* The user picks a file, or closes the file dialog.
handleFileChange ==
    \E type \in FileTypes :
        /\ DocumentSigning.mounted
        /\ DocumentSigning' =
               IF type # Null /\ type = "application/pdf"
               THEN [DocumentSigning EXCEPT !.file = type, !.error = ""]
               ELSE [DocumentSigning EXCEPT !.file = Null,
                                            !.error = "Please select a PDF file"]
        /\ UNCHANGED <<AppContent, statusVars, fetches, DocumentSearch>>

\* The user edits an input of a signer row.
handleSignerChange ==
    \E index \in 1..Len(DocumentSigning.signers) :
    \E field \in DOMAIN SignerInputs : \E value \in SignerInputs[field] :
        /\ DocumentSigning.mounted
        /\ DocumentSigning' = [DocumentSigning EXCEPT !.signers[index][field] = value]
        /\ UNCHANGED <<AppContent, statusVars, fetches, DocumentSearch>>

\* What the user types into the title input.
Titles == {"", "Contract"}

\* The user edits a metadata input; the form has one, the title.
handleMetadataChange ==
    \E field \in {"title"} : \E value \in Titles :
        /\ DocumentSigning.mounted
        /\ DocumentSigning' = [DocumentSigning EXCEPT !.metadata[field] = value]
        /\ UNCHANGED <<AppContent, statusVars, fetches, DocumentSearch>>

\* The most rows of additional metadata the user adds.
MaxCustomFields == 2

\* What the user types into the key and the value input of a row.
FieldInputs == [key |-> {"", "a", "b"}, value |-> {"", "1", "2"}]

\* Date.now() at a click: an id no row holds; the least one, as all that is
\* done with an id is to compare it with the ids of the other rows.
newFieldId(customFields) ==
    LET ids == {customFields[i].id : i \in 1..Len(customFields)}
    IN  CHOOSE id \in 1..(Len(customFields) + 1) : id \notin ids

\* customFieldsObj of handleCustomFieldChange: the rows with a key and a
\* value, written one after the other under their keys.
customFieldsObj(rows) ==
    LET kept == {i \in 1..Len(rows) : truthy(rows[i].key) /\ truthy(rows[i].value)}
        last(k) == CHOOSE i \in kept :
                      rows[i].key = k /\ \A j \in kept : rows[j].key = k => j <= i
    IN  [k \in {rows[i].key : i \in kept} |-> rows[last(k)].value]

\* The user presses "Add Metadata Field".
addCustomField ==
    /\ DocumentSigning.mounted
    /\ Len(DocumentSigning.customFields) < MaxCustomFields
    /\ DocumentSigning' = [DocumentSigning EXCEPT !.customFields =
           Append(@, [key |-> "", value |-> "", id |-> newFieldId(@)])]
    /\ UNCHANGED <<AppContent, statusVars, fetches, DocumentSearch>>

\* The user presses the remove button of a row: the row is filtered out and,
\* if it has a key, the key is deleted from metadata.custom_fields.
removeCustomField ==
    \E r \in 1..Len(DocumentSigning.customFields) :
        LET fieldToRemove == DocumentSigning.customFields[r]
            newCustomFields ==
                [k \in DOMAIN DocumentSigning.metadata.custom_fields \ {fieldToRemove.key} |->
                    DocumentSigning.metadata.custom_fields[k]]
        IN  /\ DocumentSigning.mounted
            /\ DocumentSigning' = [DocumentSigning EXCEPT
                   !.customFields = SelectSeq(@, LAMBDA field : field.id # fieldToRemove.id),
                   !.metadata.custom_fields =
                       IF truthy(fieldToRemove.key) THEN newCustomFields ELSE @]
            /\ UNCHANGED <<AppContent, statusVars, fetches, DocumentSearch>>

\* The user edits the key or the value input of a row.
handleCustomFieldChange ==
    \E r \in 1..Len(DocumentSigning.customFields) : \E type \in DOMAIN FieldInputs :
        \E value \in FieldInputs[type] :
            LET newCustomFields ==
                    [DocumentSigning.customFields EXCEPT ![r] = [@ EXCEPT ![type] = value]]
            IN  /\ DocumentSigning.mounted
                /\ DocumentSigning' = [DocumentSigning EXCEPT
                       !.customFields = newCustomFields,
                       !.metadata.custom_fields = customFieldsObj(newCustomFields)]
                /\ UNCHANGED <<AppContent, statusVars, fetches, DocumentSearch>>

\* A metadata object in which the keys of the form win over the stamped ones.
processedMetadata_callerWins(metadata, email, now, service) ==
    LET stamped == [created_by |-> orElse(email, "unknown"), created_at |-> now,
                    service |-> service]
    IN  [k \in DOMAIN metadata \cup DOMAIN stamped |->
            IF k \in DOMAIN metadata THEN metadata[k] ELSE stamped[k]]

\* processedMetadata of handleSubmit: the metadata of the form spread first,
\* then created_by, created_at and service.
processedMetadata(metadata, email, now, service) ==
    LET stamped == [created_by |-> orElse(email, "unknown"), created_at |-> now,
                    service |-> service]
    IN  [k \in DOMAIN metadata \cup DOMAIN stamped |->
            IF k \in DOMAIN stamped THEN stamped[k] ELSE metadata[k]]

\* A remove button that is there for a single row too.
canRemoveSigner_always(signers) == TRUE

\* Whether a signer row can be removed: there is more than one.
canRemoveSigner(signers) == Len(signers) > 1

\* The user adds a signer row.
addSigner ==
    /\ DocumentSigning.mounted
    /\ Len(DocumentSigning.signers) < MaxSigners
    /\ DocumentSigning' = [DocumentSigning EXCEPT !.signers = Append(@, emptySigner)]
    /\ UNCHANGED <<AppContent, statusVars, fetches, DocumentSearch>>

\* The user removes a signer row.
removeSigner ==
    \E index \in 1..Len(DocumentSigning.signers) :
        /\ DocumentSigning.mounted
        /\ canRemoveSigner(DocumentSigning.signers)
        /\ DocumentSigning' = [DocumentSigning EXCEPT !.signers = RemoveAt(@, index)]
        /\ UNCHANGED <<AppContent, statusVars, fetches, DocumentSearch>>

\* A validation that looks at the names only.
someSignerIncomplete_nameOnly(signers) ==
    \E i \in 1..Len(signers) : ~truthy(signers[i].signer_name)

\* signers.some(s => !s.signer_name || !s.signer_email)
someSignerIncomplete(signers) ==
    \E i \in 1..Len(signers) :
        ~truthy(signers[i].signer_name) \/ ~truthy(signers[i].signer_email)

\* What handleSubmit does to the screen once validation has passed.
submitStarted(c) == [c EXCEPT !.loading = TRUE, !.error = "", !.result = <<>>]

\* The user submits the form; the submit button is disabled while loading.
handleSubmit ==
    /\ DocumentSigning.mounted
    /\ ~DocumentSigning.loading
    /\ IF ~truthy(DocumentSigning.file)
       THEN /\ DocumentSigning' = [DocumentSigning EXCEPT
                                      !.error = "Please select a PDF file"]
            /\ UNCHANGED fetches
       ELSE IF someSignerIncomplete(DocumentSigning.signers)
       THEN /\ DocumentSigning' = [DocumentSigning EXCEPT
                                      !.error = "Please fill in all signer information"]
            /\ UNCHANGED fetches
       ELSE \E now \in Times :
            /\ Len(fetches) < MaxInFlight
            /\ DocumentSigning' = submitStarted(DocumentSigning)
            /\ fetches' = Append(fetches,
                   [op |-> "sign", orphan |-> FALSE,
                    service |-> AppContent.currentService,
                    document |-> DocumentSigning.file,
                    signers |-> DocumentSigning.signers,
                    metadata |-> processedMetadata(DocumentSigning.metadata, CurrentUser,
                                                   now, AppContent.currentService),
                    before |-> [result |-> DocumentSigning.result,
                                lastDocumentId |-> AppContent.lastDocumentId,
                                lastSigningUrl |-> AppContent.lastSigningUrl]])
    /\ UNCHANGED <<AppContent, statusVars, DocumentSearch>>

\* The sign fetches that are in flight, whether their screen is still there or not.
signFetch == {i \in 1..Len(fetches) : fetches[i].op = "sign"}

\* A settled sign fetch writes the screen's state, unless the instance that
\* issued it is gone.
settleSigning(i, new) ==
    /\ DocumentSigning' = IF fetches[i].orphan THEN DocumentSigning ELSE new
    /\ fetches' = RemoveAt(fetches, i)
    /\ UNCHANGED <<statusVars, DocumentSearch>>

\* The sign fetch i answers 2xx with `data`.
handleSubmit_accepted(i, data) ==
    /\ settleSigning(i, [DocumentSigning EXCEPT !.result = <<data>>, !.loading = FALSE])
    /\ AppContent' = [AppContent EXCEPT
           !.lastDocumentId = data.document_id,
           !.lastSigningUrl = publishedSigningUrl(@, data)]

\* The sign request answers 2xx.
handleSubmit_ok ==
    \E i \in signFetch : \E data \in SignAnswers(fetches[i].service) :
        handleSubmit_accepted(i, data)

\* The sign fetch i ends with the error message `message`.
handleSubmit_failed(i, message) ==
    /\ settleSigning(i, [DocumentSigning EXCEPT !.error = message, !.loading = FALSE])
    /\ UNCHANGED AppContent

\* The sign request answers non-2xx with a structured error body.
handleSubmit_notOk ==
    \E i \in signFetch : \E detail \in Details :
        handleSubmit_failed(i, orElse(detail, "Signing request failed"))

\* The sign request fails, or its body cannot be parsed.
handleSubmit_catch ==
    \E i \in signFetch : handleSubmit_failed(i, "Network error occurred")

-----------------------------------------------------------------------------
(* AppContent: the service selector and the tabs *)

\* Whether AppContent renders the tabs rather than Login or the loading
\* container.
tabsShown(app) == app.isAuthenticated /\ ~app.loading

\* The service-change effect of the signing screen.
serviceChanged(c) == [c EXCEPT !.result = <<>>, !.error = ""]

\* The signing screen after AppContent went from `old` to `new`: mounted
\* afresh, kept (its service-change effect run), or gone.
renderSigning(old, new) ==
    IF tabsShown(new) /\ new.activeTab = "signing"
    THEN IF ~DocumentSigning.mounted THEN DocumentSigningInit
         ELSE IF new.currentService # old.currentService
              THEN serviceChanged(DocumentSigning)
              ELSE DocumentSigning
    ELSE DocumentSigningGone

\* The search screen after AppContent went from `old` to `new`.
renderSearch(old, new) ==
    IF tabsShown(new) /\ new.activeTab = "search"
    THEN IF ~DocumentSearch.mounted THEN DocumentSearchInit(new.currentService)
         ELSE [DocumentSearch EXCEPT !.searchCriteria.service = new.currentService]
    ELSE DocumentSearchGone

\* The user logs in (AuthContext): the discovery effect starts fetchServices,
\* and the loading container is shown.
login ==
    /\ ~AppContent.isAuthenticated
    /\ Len(fetches) < MaxInFlight
    /\ AppContent' = [AppContent EXCEPT !.isAuthenticated = TRUE, !.loading = TRUE]
    /\ fetches' = Append(fetches, Fetch("services", Null, Null, FALSE))
    /\ UNCHANGED <<statusVars, screenVars>>

\* The user logs out (AuthContext): Login is shown, the discovery effect
\* empties the list, and the fetches of the screen that was shown stay in flight.
logout ==
    /\ AppContent.isAuthenticated
    /\ AppContent' = setSupportedServices(
                         [AppContent EXCEPT !.isAuthenticated = FALSE], <<>>)
    /\ DocumentSigning' = DocumentSigningGone
    /\ DocumentSearch' = DocumentSearchGone
    /\ fetches' = Orphaned(SearchOps \cup {"sign"})
    /\ UNCHANGED statusVars

\* fetchServices of fetch i ends with `list` as the supported services: the
\* reset effect runs, and the loading container gives way to the tabs.
fetchServices_settled(i, list) ==
    LET new == [setSupportedServices(AppContent, list) EXCEPT !.loading = FALSE]
    IN  /\ AppContent' = new
        /\ DocumentSigning' = renderSigning(AppContent, new)
        /\ DocumentSearch' = renderSearch(AppContent, new)
        /\ fetches' = RemoveAt(fetches, i)
        /\ UNCHANGED statusVars

\* GET /api/services answers 2xx with a list.
fetchServices_ok ==
    \E i \in Live("services") : \E list \in DiscoveredServices :
        fetchServices_settled(i, list)

\* GET /api/services answers non-2xx, or the request fails: the default list.
fetchServices_failed ==
    \E i \in Live("services") : fetchServices_settled(i, DefaultServices)

\* The user presses a service button: the effects of the mounted screen that
\* depend on currentService run.
setCurrentService ==
    \E service \in Range(AppContent.supportedServices) :
        /\ AppContent.isAuthenticated /\ ~AppContent.loading
        /\ service # AppContent.currentService
        /\ AppContent' = [AppContent EXCEPT !.currentService =
               resetCurrentService(AppContent.supportedServices, service)]
        /\ DocumentSigning' =
               IF DocumentSigning.mounted
               THEN serviceChanged(DocumentSigning)
               ELSE DocumentSigning
        /\ DocumentSearch' =
               IF DocumentSearch.mounted
               THEN [DocumentSearch EXCEPT !.searchCriteria.service = service]
               ELSE DocumentSearch
        /\ UNCHANGED <<statusVars, fetches>>

\* The user presses the tab that is not shown: the shown screen is unmounted,
\* its fetches stay in flight, and the other screen is mounted afresh.
setActiveTab ==
    \E tab \in {"signing", "search"} :
        /\ AppContent.isAuthenticated /\ ~AppContent.loading
        /\ tab # AppContent.activeTab
        /\ AppContent' = [AppContent EXCEPT !.activeTab = tab]
        /\ DocumentSigning' = IF tab = "signing" THEN DocumentSigningInit
                              ELSE DocumentSigningGone
        /\ DocumentSearch' = IF tab = "search"
                             THEN DocumentSearchInit(AppContent.currentService)
                             ELSE DocumentSearchGone
        /\ fetches' = Orphaned(IF tab = "signing" THEN SearchOps ELSE {"sign"})
        /\ UNCHANGED statusVars

-----------------------------------------------------------------------------
(* Specifications *)

\* AppContent when it is constructed.
AppContentInit ==
    [isAuthenticated |-> FALSE, activeTab |-> "signing",
     currentService |-> "scrive", supportedServices |-> <<>>,
     lastDocumentId |-> Null, lastSigningUrl |-> Null, loading |-> FALSE]

\* AppContent once the user is logged in and discovery has answered `list`.
AppContentReady(list) ==
    setSupportedServices([AppContentInit EXCEPT !.isAuthenticated = TRUE], list)

\* The application when it is loaded: nobody is logged in, no screen is shown.
Init ==
    /\ AppContent = AppContentInit
    /\ DocumentStatus = DocumentStatusGone
    /\ interval = <<>>
    /\ fetches = <<>>
    /\ completedSeen = FALSE
    /\ DocumentSearch = DocumentSearchGone
    /\ DocumentSigning = DocumentSigningGone

\* The application once the user has logged in and discovery has answered
\* with two services: the signing tab is shown, the status screen has not been
\* mounted yet.
InitReady ==
    /\ AppContent = AppContentReady(<<"docusign", "selfsign">>)
    /\ DocumentStatus = DocumentStatusGone
    /\ interval = <<>>
    /\ fetches = <<>>
    /\ completedSeen = FALSE
    /\ DocumentSearch = DocumentSearchGone
    /\ DocumentSigning = DocumentSigningInit

NextApp ==
    \/ login
    \/ logout
    \/ fetchServices_ok
    \/ fetchServices_failed
    \/ setCurrentService
    \/ setActiveTab

SpecApp == Init /\ [][NextApp]_vars

NextStatus ==
    \/ mountStatus
    \/ unmountStatus
    \/ setSelectedService
    \/ setDocumentId
    \/ setAutoRefresh
    \/ checkStatus_click
    \/ interval_tick
    \/ checkStatus_ok
    \/ checkStatus_notOk
    \/ checkStatus_catch

SpecStatus == InitReady /\ [][NextStatus]_vars

NextSearch ==
    \/ setActiveTab
    \/ setCurrentService
    \/ handleInputChange
    \/ handleSearch
    \/ handleSearch_ok
    \/ handleSearch_notOk
    \/ handleSearch_catch
    \/ handleUpdateStatus
    \/ handleUpdateStatus_ok
    \/ handleUpdateStatus_notOk
    \/ handleUpdateStatus_catch
    \/ handleDeleteSignature
    \/ handleDeleteSignature_ok
    \/ handleDeleteSignature_notOk
    \/ handleDeleteSignature_catch
    \/ searchOrphan_settled
    \/ sortResults

SpecSearch == InitReady /\ [][NextSearch]_vars

NextSigning ==
    \/ setActiveTab
    \/ setCurrentService
    \/ handleFileChange
    \/ handleSignerChange
    \/ handleSubmit
    \/ handleSubmit_ok
    \/ handleSubmit_notOk
    \/ handleSubmit_catch

SpecSigning == InitReady /\ [][NextSigning]_vars

NextForm ==
    \/ handleFileChange
    \/ handleSignerChange
    \/ handleMetadataChange
    \/ addSigner
    \/ removeSigner
    \/ handleSubmit
    \/ handleSubmit_ok
    \/ handleSubmit_notOk
    \/ handleSubmit_catch

SpecForm == InitReady /\ [][NextForm]_vars

\* What the search form holds after any edits of its three inputs.
QueryCriteria ==
    [document_id : {"", " ", "d1", " d1 "},
     signer_email : {"", " ", "ann@x.com"},
     status : {"", "pending"},
     service : {"docusign"}]

\* The application with the search tab shown and the form edited.
InitQuery ==
    /\ AppContent = [AppContentReady(<<"docusign", "selfsign">>) EXCEPT !.activeTab = "search"]
    /\ DocumentStatus = DocumentStatusGone
    /\ interval = <<>>
    /\ fetches = <<>>
    /\ completedSeen = FALSE
    /\ \E criteria \in QueryCriteria :
          DocumentSearch = [DocumentSearchInit("docusign") EXCEPT !.searchCriteria = criteria]
    /\ DocumentSigning = DocumentSigningGone

NextQuery ==
    \/ setCurrentService
    \/ handleInputChange
    \/ handleSearch
    \/ handleSearch_ok
    \/ handleSearch_notOk
    \/ handleSearch_catch

SpecQuery == InitQuery /\ [][NextQuery]_vars

\* The application with the search tab shown and nothing searched yet.
InitSearchTab ==
    /\ AppContent = [AppContentReady(<<"docusign", "selfsign">>) EXCEPT !.activeTab = "search"]
    /\ DocumentStatus = DocumentStatusGone
    /\ interval = <<>>
    /\ fetches = <<>>
    /\ completedSeen = FALSE
    /\ DocumentSearch = DocumentSearchInit("docusign")
    /\ DocumentSigning = DocumentSigningGone

NextRefresh ==
    \/ handleSearch
    \/ handleSearch_ok
    \/ handleSearch_notOk
    \/ handleSearch_catch
    \/ handleUpdateStatus
    \/ handleUpdateStatus_ok
    \/ handleUpdateStatus_notOk
    \/ handleUpdateStatus_catch

SpecRefresh == InitSearchTab /\ [][NextRefresh]_vars

NextSort ==
    \/ handleSearch
    \/ handleSearch_ok
    \/ handleSearch_notOk
    \/ handleSearch_catch
    \/ handleDeleteSignature
    \/ handleDeleteSignature_ok
    \/ handleDeleteSignature_notOk
    \/ handleDeleteSignature_catch
    \/ sortResults_column

SpecSort == InitSearchTab /\ [][NextSort]_vars

NextExpand ==
    \/ handleSearch
    \/ handleSearch_ok
    \/ handleSearch_notOk
    \/ handleSearch_catch
    \/ toggleMetadata
    \/ sortResults
    \/ handleUpdateStatus
    \/ handleUpdateStatus_ok
    \/ handleUpdateStatus_notOk
    \/ handleUpdateStatus_catch
    \/ handleDeleteSignature
    \/ handleDeleteSignature_ok
    \/ handleDeleteSignature_notOk
    \/ handleDeleteSignature_catch

SpecExpand == InitSearchTab /\ [][NextExpand]_vars

NextFields ==
    \/ addCustomField
    \/ handleCustomFieldChange
    \/ removeCustomField

SpecFields == InitReady /\ [][NextFields]_vars

-----------------------------------------------------------------------------
(* The status screen: auto-refresh and the in-flight flag *)

\* The statuses after which a record no longer changes.
TerminalStatuses == {"completed", "cancelled", "failed"}

\* A step in which a status fetch is issued.
StatusFetchIssued ==
    /\ Len(fetches') = Len(fetches) + 1
    /\ fetches'[Len(fetches')].op = "status"

\* A step in which the interval issues a status fetch for the service and
\* document id that are entered.
TimerPollIssued ==
    /\ StatusFetchIssued
    /\ fetches'[Len(fetches')].byTimer
    /\ isCurrent([documentId |-> fetches'[Len(fetches')].documentId,
                  selectedService |-> fetches'[Len(fetches')].service])

\* C2: whenever the displayed status is completed, cancelled or failed, no
\* interval timer is active.
C2_NoTimerUnderTerminalStatus ==
    statusOf(DocumentStatus) \in TerminalStatuses => interval = <<>>

\* C3: once a completed response has been applied for the polled document, the
\* interval never issues another status request for that document.
C3_NoTimerPollAfterCompleted ==
    [][completedSeen => ~TimerPollIssued]_vars

\* C4: after the status screen is torn down no interval is active, and no
\* status request is issued until the screen is mounted again.
C4_TeardownCancelsTimer ==
    /\ [](~DocumentStatus.mounted => interval = <<>>)
    /\ [][~DocumentStatus.mounted => ~StatusFetchIssued]_vars

\* C4 witness: the screen was torn down while a status request was in flight.
C4_Witness ==
    /\ ~DocumentStatus.mounted
    /\ \E i \in 1..Len(fetches) : fetches[i].op = "status" /\ fetches[i].orphan

\* C5: at most one status request of the mounted status screen is in flight,
\* counting manual checks and checks fired by the interval.
C5_AtMostOneStatusFetch ==
    Cardinality(Live("status")) <= 1

-----------------------------------------------------------------------------
(* The search screen: status merge, failed search, delete *)

\* C1: a status merge keeps every key of every record, and every field that
\* the status response does not carry keeps the value it had before the merge.
C1_MergeKeepsAbsentFields ==
    [][\A i \in Live("update") : \A statusData \in StatusAnswers : \A now \in Times :
          handleUpdateStatus_merged(i, statusData, now) =>
              \A r \in 1..Len(DocumentSearch.results) :
                  /\ DOMAIN DocumentSearch.results[r] \subseteq DOMAIN DocumentSearch'.results[r]
                  /\ \A k \in DOMAIN DocumentSearch.results[r] \ DOMAIN statusData :
                        DocumentSearch'.results[r][k] = DocumentSearch.results[r][k]]_vars

\* The messages a failed search shows.
SearchErrors == {orElse(detail, "Search failed") : detail \in Details}
                    \cup {"Network error occurred"}

shownIds == {DocumentSearch.results[r].id : r \in 1..Len(DocumentSearch.results)}

\* C9: a delete of id X that succeeds takes exactly the row with id X out of
\* the rows; every other row stays, in the order it had.
C9_DeleteRemovesExactlyX ==
    [][\A i \in Live("delete") :
          handleDeleteSignature_removed(i) =>
              \E p \in 1..Len(DocumentSearch.results) :
                  /\ DocumentSearch.results[p].id = fetches[i].signatureId
                  /\ Len(DocumentSearch'.results) = Len(DocumentSearch.results) - 1
                  /\ \A j \in 1..Len(DocumentSearch'.results) :
                        DocumentSearch'.results[j] =
                            DocumentSearch.results[IF j < p THEN j ELSE j + 1]]_vars

\* C9 witness: of three rows found, the second has been deleted.
C9_Witness ==
    /\ DocumentSearch.mounted
    /\ ~DocumentSearch.loading
    /\ Len(DocumentSearch.results) = 2
    /\ shownIds = {1, 3}

\* The messages a failed delete shows.
DeleteErrors == {"Failed to delete signature: " \o inTemplate(detail) : detail \in Details}
                    \cup {"Network error occurred while deleting signature"}

C11_DeclinedDeleteDoesNothing ==
    /\ [](\A i \in Live("delete") : fetches[i].confirmed)
    /\ [][handleDeleteSignature_declined =>
             /\ fetches' = fetches
             /\ DocumentSearch'.results = DocumentSearch.results
             /\ DocumentSearch'.loading = DocumentSearch.loading
             /\ DocumentSearch'.error = DocumentSearch.error]_vars

\* C11 witness: rows are shown with an error left by a failed delete, the
\* Delete button can be pressed and declined, and no delete is in flight.
C11_Witness ==
    /\ DocumentSearch.mounted
    /\ ~DocumentSearch.loading
    /\ DocumentSearch.results # <<>>
    /\ DocumentSearch.error = "Network error occurred while deleting signature"
    /\ \A i \in 1..Len(fetches) : fetches[i].op # "delete"

-----------------------------------------------------------------------------
(* AppContent: the active service *)

\* C15: the active service is one of the supported services, in every state.
C15_CurrentServiceSupported ==
    AppContent.currentService \in Range(AppContent.supportedServices)

\* C16: when the supported services change to a list that is not empty and
\* does not hold the active service, the active service becomes the first of
\* the list; when the new list holds the active service, it stays.
C16_FallbackToFirst ==
    [][AppContent'.supportedServices # AppContent.supportedServices =>
          LET list == AppContent'.supportedServices
              active == AppContent.currentService
          IN  /\ (Len(list) > 0 /\ \A n \in 1..Len(list) : list[n] # active)
                    => AppContent'.currentService = list[1]
              /\ (\E n \in 1..Len(list) : list[n] = active)
                    => AppContent'.currentService = active]_vars

\* C16 witness: discovery answered a list without the active service, and
\* the first of the list is active.
C16_Witness ==
    /\ AppContent.isAuthenticated
    /\ AppContent.supportedServices = <<"docusign", "selfsign">>
    /\ AppContent.currentService = "docusign"
    /\ AppContent.activeTab = "signing"
    /\ fetches = <<>>

-----------------------------------------------------------------------------
(* The search screen: the query of a search request *)

\* A step in which a search request is issued.
SearchIssued ==
    /\ Len(fetches') = Len(fetches) + 1
    /\ fetches'[Len(fetches')].op = "search"

\* The values a query carries under `key`, one for each time the key is there.
paramsOf(query, key) == SelectSeq(query, LAMBDA param : param[1] = key)

\* The three criteria of the search form.
FormCriteria == {"document_id", "signer_email", "status"}

\* C12: every search request carries `handler` exactly once, with the e-mail
\* of the current user, whatever the search form holds.
C12_HandlerExactlyOnce ==
    \A i \in Live("search") :
        paramsOf(fetches[i].query, "handler") = <<<<"handler", CurrentUser>>>>

\* C12 witness: a search request with criteria beside the handler is in flight.
C12_Witness ==
    \E i \in Live("search") :
        /\ Len(fetches[i].query) >= 4
        /\ paramsOf(fetches[i].query, "handler") # <<>>

\* C13 as stated: a search with the three criteria left empty asks for
\* nothing but the records of the current user.
C13_EmptySearchOnlyHandler ==
    [][(SearchIssued /\ \A k \in FormCriteria : DocumentSearch.searchCriteria[k] = "")
          => fetches'[Len(fetches')].query = <<<<"handler", CurrentUser>>>>]_vars

\* C13 amended: a search with the three criteria left empty asks for the
\* records of the current user in the service that is selected, and for no
\* other restriction.
C13_EmptySearchHandlerAndService ==
    [][(SearchIssued /\ \A k \in FormCriteria : DocumentSearch.searchCriteria[k] = "")
          => fetches'[Len(fetches')].query =
                 << <<"handler", CurrentUser>>, <<"service", AppContent.currentService>> >>]_vars

\* C13 witness: a search with an empty form is in flight after the service
\* was switched.
C13_Witness ==
    \E i \in Live("search") :
        /\ fetches[i].query = << <<"handler", CurrentUser>>, <<"service", "selfsign">> >>
        /\ \A k \in FormCriteria : DocumentSearch.searchCriteria[k] = ""

\* C14: a criterion that is empty or blank is not sent, and a criterion that
\* is sent is sent once, with its trimmed value, which is not empty.
C14_BlankCriteriaNotSent ==
    [][SearchIssued =>
          \A k \in DOMAIN DocumentSearch.searchCriteria :
              LET typed == DocumentSearch.searchCriteria[k]
                  sent == paramsOf(fetches'[Len(fetches')].query, k)
              IN  /\ typed \in {"", " "} => sent = <<>>
                  /\ typed \notin {"", " "} =>
                        /\ Len(sent) = 1
                        /\ sent[1][2] # ""
                        /\ sent[1][2] \notin {" ", " d1 "}
                        /\ sent[1][2] = (IF typed = " d1 " THEN "d1" ELSE typed)]_vars

\* C14 witness: a search is in flight that was issued from a form with a
\* padded document id and a blank signer e-mail.
C14_Witness ==
    \E i \in Live("search") :
        /\ DocumentSearch.searchCriteria.document_id = " d1 "
        /\ DocumentSearch.searchCriteria.signer_email = " "
        /\ paramsOf(fetches[i].query, "document_id") = <<<<"document_id", "d1">>>>
        /\ paramsOf(fetches[i].query, "signer_email") = <<>>

-----------------------------------------------------------------------------
(* The signing screen: submissions in flight, failed submission *)

\* C6: at most one sign request is in flight.
C6_AtMostOneSignFetch ==
    Cardinality(signFetch) <= 1

\* The messages a failed submission shows.
SubmitErrors == {orElse(detail, "Signing request failed") : detail \in Details}
                    \cup {"Network error occurred"}

urlsIn(data) ==
    {data.signing_urls[n].signing_url : n \in 1..Len(data.signing_urls)} \ {Null, ""}

\* C17: every submission that succeeds sets lastDocumentId to the document id
\* of the result, and changes lastSigningUrl only to a signing URL of a
\* signer of the result: when no signer has one it keeps its value.
C17_SuccessPublishesSession ==
    [][\A i \in signFetch : \A data \in SignAnswers(fetches[i].service) :
          handleSubmit_accepted(i, data) =>
              /\ AppContent'.lastDocumentId = data.document_id
              /\ AppContent'.lastSigningUrl # AppContent.lastSigningUrl
                    => AppContent'.lastSigningUrl \in urlsIn(data)
              /\ urlsIn(data) = {}
                    => AppContent'.lastSigningUrl = AppContent.lastSigningUrl]_vars

\* C17 witness: a submission with a URL for d1 was followed by one for d2
\* whose signers have no URL.
C17_Witness ==
    /\ DocumentSigning.mounted
    /\ ~DocumentSigning.loading
    /\ DocumentSigning.result # <<>>
    /\ DocumentSigning.result[1].document_id = "d2"
    /\ urlsIn(DocumentSigning.result[1]) = {}
    /\ AppContent.lastDocumentId = "d2"
    /\ AppContent.lastSigningUrl = signingUrlOf("d1")

\* C18: a switch of the active service clears the result and the error that
\* the signing screen shows, and leaves lastDocumentId and lastSigningUrl as
\* they are.
C18_ServiceSwitchClearsResult ==
    [][(DocumentSigning.mounted /\ DocumentSigning'.mounted
           /\ AppContent'.currentService # AppContent.currentService) =>
          /\ DocumentSigning'.result = <<>>
          /\ DocumentSigning'.error = ""
          /\ AppContent'.lastDocumentId = AppContent.lastDocumentId
          /\ AppContent'.lastSigningUrl = AppContent.lastSigningUrl]_vars

\* C18 witness: a submission succeeded under docusign, the service was
\* switched to selfsign, and the screen shows neither result nor error.
C18_Witness ==
    /\ DocumentSigning.mounted
    /\ ~DocumentSigning.loading
    /\ DocumentSigning.file # Null
    /\ DocumentSigning.result = <<>>
    /\ DocumentSigning.error = ""
    /\ AppContent.currentService = "selfsign"
    /\ AppContent.lastSigningUrl = signingUrlOf("d1")
    /\ fetches = <<>>

-----------------------------------------------------------------------------
(* The signing screen: validation of the form *)

\* Whether the form misses the file, or the name or e-mail of a signer.
formInvalid ==
    \/ DocumentSigning.file = Null
    \/ \E n \in 1..Len(DocumentSigning.signers) :
          \/ DocumentSigning.signers[n].signer_name = ""
          \/ DocumentSigning.signers[n].signer_email = ""

\* C19: a submit of a form without a file, or with a signer whose name or
\* e-mail is empty, issues no request, leaves loading false and the result
\* and the session state as they are, and sets an error.
C19_ValidationBlocksSubmit ==
    [][(handleSubmit /\ formInvalid) =>
          /\ fetches' = fetches
          /\ ~DocumentSigning'.loading
          /\ DocumentSigning'.result = DocumentSigning.result
          /\ AppContent' = AppContent
          /\ DocumentSigning'.error # ""]_vars

\* C19 witness: after a submission that succeeded, a submit with an
\* incomplete signer was blocked and the result is still shown.
C19_Witness ==
    /\ DocumentSigning.mounted
    /\ ~DocumentSigning.loading
    /\ DocumentSigning.file # Null
    /\ DocumentSigning.error = "Please fill in all signer information"
    /\ DocumentSigning.result # <<>>
    /\ fetches = <<>>

\* C20: every sign request carries a PDF file and at least one signer, and
\* every signer it carries has a name and an e-mail that are not empty.
C20_RequestIsValid ==
    \A i \in Live("sign") :
        /\ fetches[i].document = "application/pdf"
        /\ Len(fetches[i].signers) >= 1
        /\ \A n \in 1..Len(fetches[i].signers) :
              /\ fetches[i].signers[n].signer_name # ""
              /\ fetches[i].signers[n].signer_email # ""

\* C20 witness: a request with two signers is in flight.
C20_Witness ==
    \E i \in Live("sign") : Len(fetches[i].signers) = MaxSigners

-----------------------------------------------------------------------------
(* The signing screen: the metadata of a sign request *)

\* Metadata objects a caller may hold, with and without the stamped keys.
SuppliedMetadata ==
    {[title |-> t, custom_fields |-> <<>>] : t \in Titles}
        \cup {[title |-> t, custom_fields |-> <<>>, created_by |-> "eve@x.com",
                created_at |-> "t0", service |-> "scrive"] : t \in Titles}

\* C21: the metadata of every sign request has service equal to the service
\* of the endpoint and created_by equal to the e-mail of the current user,
\* with created_at the time of the build; the three are stamped over
\* whatever the metadata held under those keys.
C21_MetadataStamped ==
    /\ \A i \in Live("sign") :
          /\ fetches[i].metadata.service = fetches[i].service
          /\ fetches[i].metadata.created_by = CurrentUser
          /\ fetches[i].metadata.created_at \in Times
    /\ \A metadata \in SuppliedMetadata : \A now \in Times : \A service \in Services :
          LET built == processedMetadata(metadata, CurrentUser, now, service)
          IN  /\ built.service = service
              /\ built.created_by = CurrentUser
              /\ built.created_at = now
              /\ \A k \in DOMAIN metadata \ {"service", "created_by", "created_at"} :
                    built[k] = metadata[k]

\* C21 witness: a request with a title in its metadata is in flight.
C21_Witness ==
    \E i \in Live("sign") :
        /\ fetches[i].metadata.title = "Contract"
        /\ fetches[i].metadata.service = "docusign"
        /\ fetches[i].metadata.created_by = CurrentUser

-----------------------------------------------------------------------------
(* The signing screen: how a result is presented *)

\* Whether a sign response itself says the document is signed by everyone.
reflectsTerminalState(data) ==
    /\ \A k \in 1..Len(data.signing_urls) : data.signing_urls[k].signed
    /\ truthy(data.completed_at)

\* C22: the completed summary is shown only for a result in which every
\* signer is marked signed and completed_at is present; any other result is
\* presented as pending.
C22_CompletedOnlyWhenTerminal ==
    (DocumentSigning.mounted /\ DocumentSigning.result # <<>>)
        => (resultPresentation(AppContent.currentService, DocumentSigning.result)
                = "completed"
            => reflectsTerminalState(DocumentSigning.result[1]))

-----------------------------------------------------------------------------
(* The search screen: what a status refresh may change *)

\* C23: once a row's status is completed, cancelled or failed, no 2xx answer
\* to a status refresh, of that row or of a row with the same document_id and
\* service, changes the status of the row.
C23_TerminalStatusFinal ==
    [][\A i \in searchFetch("update") : \A statusData \in StatusAnswers : \A now \in Times :
          handleUpdateStatus_merged(i, statusData, now)
              => \A r \in 1..Len(DocumentSearch.results) :
                    DocumentSearch.results[r].status \in TerminalStatuses
                        => DocumentSearch'.results[r].status
                               = DocumentSearch.results[r].status]_vars

\* The record the search endpoint holds under the id of `signature`.
loaded(signature) ==
    CHOOSE record \in Range(SignatureDB) : record.id = signature.id

\* C24: every row of the results has the document_id and the service it was
\* loaded with, whatever refreshes, sorts and deletes came after the search.
C24_IdentityFieldsKept ==
    \A r \in 1..Len(DocumentSearch.results) :
        LET signature == DocumentSearch.results[r] IN
        /\ signature.document_id = loaded(signature).document_id
        /\ signature.service = loaded(signature).service

\* C24 witness: rows that were refreshed and sorted after a delete; one row
\* of another document than the refreshed one is among them.
C24_Witness ==
    /\ DocumentSearch.sortConfig.key # Null
    /\ {DocumentSearch.results[r].id : r \in 1..Len(DocumentSearch.results)} = {2, 3}
    /\ \E r \in 1..Len(DocumentSearch.results) :
          "updated_at" \in DOMAIN DocumentSearch.results[r]

\* The fields of a record that a row of the table shows.
DisplayedFields ==
    {"created_at", "document_id", "id", "metadata", "service", "signer_email",
     "signer_name", "signing_url", "status"}

\* The fields of a record that take the time of the refresh.
RefreshStamps == {"updated_at", "last_status_check"}

-----------------------------------------------------------------------------
(* The status screen: the manual check and the timer *)

\* C25: while the status screen is shown and no check the user started is
\* under way, the check-status button can be pressed, whether the timer is
\* off, on, or has a request of its own in flight.
C25_ManualCheckAlwaysEnabled ==
    (/\ DocumentStatus.mounted
     /\ \A i \in 1..Len(fetches) :
           (fetches[i].op = "status" /\ ~fetches[i].orphan) => fetches[i].byTimer)
        => checkStatusEnabled

-----------------------------------------------------------------------------
(* The search screen: sorting *)

\* C27: a click on the header of the current key turns asc into desc and
\* desc into asc; a click on the header of another key gives asc, whatever
\* the direction was; the clicked key becomes the current key.
C27_SortDirection ==
    [][\A key \in SortColumns :
          sortResultsBy(key)
              => /\ DocumentSearch'.sortConfig.key = key
                 /\ DocumentSearch'.sortConfig.direction =
                        IF DocumentSearch.sortConfig.key # key THEN "asc"
                        ELSE IF DocumentSearch.sortConfig.direction = "asc" THEN "desc"
                        ELSE "asc"]_vars

\* C27 witness: the header of the status column was clicked twice.
C27_Witness ==
    /\ DocumentSearch.sortConfig = [key |-> "status", direction |-> "desc"]
    /\ Len(DocumentSearch.results) = 3
    /\ DocumentSearch.results[3].status = "completed"

\* s in the opposite order.
Reverse(s) == [i \in 1..Len(s) |-> s[Len(s) + 1 - i]]

\* The rows are sorted ascending by `key` and the header of `key` is clicked
\* again.
secondClick(key) ==
    /\ DocumentSearch.sortConfig = [key |-> key, direction |-> "asc"]
    /\ DocumentSearch.results = sorted(DocumentSearch.results, key, "asc")
    /\ sortResultsBy(key)

\* C28 as stated: rows that hold pairwise distinct values under K, sorted by
\* K ascending and then by K again, are in exactly the reverse order.
C28_DescendingReversesDistinctValues ==
    [][\A key \in SortColumns :
          (/\ secondClick(key)
           /\ \A p, q \in 1..Len(DocumentSearch.results) :
                 p # q => DocumentSearch.results[p][key] # DocumentSearch.results[q][key])
              => DocumentSearch'.results = Reverse(DocumentSearch.results)]_vars

\* C28: rows whose values under K are pairwise distinct as the comparator
\* reads them (strings without regard to letter case, dates as instants),
\* sorted by K ascending and then by K again, are in exactly the reverse
\* order.
C28_DescendingReversesDistinctKeys ==
    [][\A key \in SortColumns :
          (/\ secondClick(key)
           /\ \A p, q \in 1..Len(DocumentSearch.results) :
                 p # q => sortValue(DocumentSearch.results[p], key)
                              # sortValue(DocumentSearch.results[q], key))
              => DocumentSearch'.results = Reverse(DocumentSearch.results)]_vars

\* C28 witness: three rows sorted by their dates, latest first.
C28_Witness ==
    /\ DocumentSearch.sortConfig = [key |-> "created_at", direction |-> "desc"]
    /\ Len(DocumentSearch.results) = 3
    /\ \A p \in 1..2 : DocumentSearch.results[p].created_at
                            > DocumentSearch.results[p + 1].created_at

\* How often x is in s.
occurrences(s, x) == Cardinality({i \in 1..Len(s) : s[i] = x})

\* C29: a sort issues no request, and the rows after it are the rows before
\* it, each as often as before and with every field as before.
C29_SortPermutesInMemory ==
    [][\A key \in SortColumns :
          sortResultsBy(key)
              => /\ fetches' = fetches
                 /\ Len(DocumentSearch'.results) = Len(DocumentSearch.results)
                 /\ \A x \in Range(DocumentSearch.results) \cup Range(DocumentSearch'.results) :
                       occurrences(DocumentSearch'.results, x)
                           = occurrences(DocumentSearch.results, x)]_vars

\* C29 witness: a sort has brought three rows, of which two are of one
\* document, into another order than the one they were loaded in.
C29_Witness ==
    /\ DocumentSearch.sortConfig.key = "document_id"
    /\ Len(DocumentSearch.results) = 3
    /\ DocumentSearch.results[1].id = 3
    /\ fetches = <<>>

\* Whether two values of a column are the same string but for letter case,
\* or the same instant.
sameButCase(x, y, key) ==
    \/ x = y
    \/ key # "created_at" /\ {x, y} = {"Ann@x.com", "ann@x.com"}

\* The place of the row with id `id` in s.
placeOf(s, id) == CHOOSE i \in 1..Len(s) : s[i].id = id

\* C30: rows whose values under the key are the same but for letter case
\* compare equal in both directions, and a sort in either direction leaves
\* them in the order they were in.
C30_StableCaseInsensitive ==
    [][\A key \in SortColumns :
          sortResultsBy(key)
              => \A p, q \in 1..Len(DocumentSearch.results) :
                    (p < q /\ sameButCase(DocumentSearch.results[p][key],
                                          DocumentSearch.results[q][key], key))
                        => /\ \A direction \in {"asc", "desc"} :
                                 compare(DocumentSearch.results[p], DocumentSearch.results[q],
                                         key, direction) = 0
                           /\ placeOf(DocumentSearch'.results, DocumentSearch.results[p].id)
                                < placeOf(DocumentSearch'.results, DocumentSearch.results[q].id)]_vars

\* C30 witness: the rows of Ann@x.com and ann@x.com, sorted by signer in
\* descending direction, are in the order they were loaded in, behind the row
\* of bob@x.com.
C30_Witness ==
    /\ DocumentSearch.sortConfig = [key |-> "signer_email", direction |-> "desc"]
    /\ Len(DocumentSearch.results) = 3
    /\ DocumentSearch.results[2].signer_email = "Ann@x.com"
    /\ DocumentSearch.results[3].signer_email = "ann@x.com"

-----------------------------------------------------------------------------
(* The search screen: the expanded metadata *)

\* C31: a started search leaves no row expanded; a click on the metadata
\* button of a row puts the id of the row into the set if it was not in it and
\* takes it out if it was, and no other id in or out; a sort, a status
\* refresh and a delete, started or settled, leave the set as it is.
C31_ExpandedMetadata ==
    [][/\ handleSearch => DocumentSearch'.expandedMetadata = {}
       /\ \A r \in 1..Len(DocumentSearch.results) :
             toggleMetadataOf(r)
                 => LET id == DocumentSearch.results[r].id IN
                    /\ id \in DocumentSearch'.expandedMetadata
                          <=> id \notin DocumentSearch.expandedMetadata
                    /\ DocumentSearch'.expandedMetadata \ {id}
                          = DocumentSearch.expandedMetadata \ {id}
       /\ (\/ sortResults
           \/ handleUpdateStatus \/ handleUpdateStatus_ok
           \/ handleUpdateStatus_notOk \/ handleUpdateStatus_catch
           \/ handleDeleteSignature \/ handleDeleteSignature_ok
           \/ handleDeleteSignature_notOk \/ handleDeleteSignature_catch)
             => DocumentSearch'.expandedMetadata = DocumentSearch.expandedMetadata]_vars

\* C31 witness: two rows are expanded, of which one has been refreshed and
\* then sorted behind the other.
C31_Witness ==
    /\ DocumentSearch.expandedMetadata = {1, 3}
    /\ DocumentSearch.sortConfig.key # Null
    /\ \E r \in 1..Len(DocumentSearch.results) :
          /\ DocumentSearch.results[r].id = 1
          /\ "updated_at" \in DOMAIN DocumentSearch.results[r]

-----------------------------------------------------------------------------
(* Errors of the operations the user starts *)

\* C32: right after a search, a status refresh, a delete, a document view or
\* a submission has ended with a non-2xx answer or with a failure of the
\* fetch, the error message of its screen, if the screen is shown, is not
\* empty.
C32_FailureShowsError ==
    [][/\ ((handleSubmit_notOk \/ handleSubmit_catch) /\ DocumentSigning'.mounted)
             => DocumentSigning'.error # ""
       /\ ((\/ handleSearch_notOk \/ handleSearch_catch
            \/ handleUpdateStatus_notOk \/ handleUpdateStatus_catch
            \/ handleDeleteSignature_notOk \/ handleDeleteSignature_catch
            \/ handleViewDocument_notOk \/ handleViewDocument_catch)
           /\ DocumentSearch'.mounted)
             => DocumentSearch'.error # ""]_vars

-----------------------------------------------------------------------------
(* The lookups by provider id *)

\* What a lookup that fails is to answer.
UnsupportedProviderError == "UnsupportedProviderError"

\* C33: while the signing screen is shown for a provider id that is not among
\* the ids the screens know, the lookups of its name, its icon and its
\* completion flag fail with UnsupportedProviderError, and the error is shown.
C33_UnknownProviderFails ==
    (DocumentSigning.mounted /\ AppContent.currentService \notin Services)
        => /\ getServiceName(AppContent.currentService) = UnsupportedProviderError
           /\ getServiceIcon(AppContent.currentService) = UnsupportedProviderError
           /\ isServiceCompleted(AppContent.currentService) \notin BOOLEAN
           /\ DocumentSigning.error # ""

-----------------------------------------------------------------------------
(* The signing screen: the service of the result that is shown *)

\* C34: a result shown in the signing screen is the answer to a request sent
\* to the service that is selected now, so that the completed summary is
\* shown for the results of the synchronous provider and for no others.
C34_ResultOfCurrentService ==
    (DocumentSigning.mounted /\ DocumentSigning.result # <<>>)
        => /\ DocumentSigning.result[1].service = AppContent.currentService
           /\ resultPresentation(AppContent.currentService, DocumentSigning.result)
                  = "completed"
              <=> isServiceCompleted(DocumentSigning.result[1].service)

-----------------------------------------------------------------------------
(* The signing screen: the additional metadata *)

\* C35: metadata.custom_fields is the mapping of the rows that have a key
\* and a value, a later row winning over an earlier one with the same key;
\* it has no entry with an empty key or an empty value.
C35_CustomFieldsOfRows ==
    DocumentSigning.mounted
        => /\ DocumentSigning.metadata.custom_fields
                  = customFieldsObj(DocumentSigning.customFields)
           /\ \A k \in DOMAIN DocumentSigning.metadata.custom_fields :
                 k # "" /\ DocumentSigning.metadata.custom_fields[k] # ""

-----------------------------------------------------------------------------
(* AppContent: the session pair *)

\* C36: whenever lastSigningUrl is set it is a signing URL of the document
\* lastDocumentId names; and after a 2xx sign answer in which some signer has
\* a signing URL, lastSigningUrl is a URL of that answer.
C36_SessionPairConsistent ==
    [][/\ AppContent'.lastSigningUrl # Null
            => /\ AppContent'.lastDocumentId \in DocIds
               /\ AppContent'.lastSigningUrl = signingUrlOf(AppContent'.lastDocumentId)
       /\ \A i \in signFetch : \A data \in SignAnswers(fetches[i].service) :
             (handleSubmit_accepted(i, data) /\ urlsIn(data) # {})
                 => AppContent'.lastSigningUrl \in urlsIn(data)]_vars

-----------------------------------------------------------------------------
(* The status screen: what the timer and the answers refer to *)

\* C37: every status request the interval issues is for the service and the
\* document id that are entered when it fires.
C37_TimerPollsSelectedService ==
    [][(StatusFetchIssued /\ fetches'[Len(fetches')].byTimer)
          => /\ fetches'[Len(fetches')].service = DocumentStatus.selectedService
             /\ fetches'[Len(fetches')].documentId = DocumentStatus.documentId]_vars

\* The status fetches of the mounted screen of which one is taken out of
\* flight by the step.
settledStatusFetch == {i \in Live("status") : fetches' = RemoveAt(fetches, i)}

\* C38: a 2xx answer that becomes the displayed status is the answer to the
\* status request issued last, and that request was for the document id and
\* the service that are entered now.
C38_LatestAnswerShown ==
    [][(checkStatus_ok /\ settledStatusFetch # {})
          => \E i \in settledStatusFetch :
                /\ \A j \in Live("status") : j <= i
                /\ fetches[i].documentId = DocumentStatus.documentId
                /\ fetches[i].service = DocumentStatus.selectedService]_vars

-----------------------------------------------------------------------------
(* The search screen: the rows a refresh leaves alone *)

\* C39: the 2xx answer to a status refresh of document D at service S leaves
\* the number of the rows and their order as they are when it arrives, and
\* every row whose document_id is not D or whose service is not S as it is,
\* whether or not the rows were sorted after the refresh was started.
C39_RefreshTouchesOnlyItsRows ==
    [][\A i \in searchFetch("update") : \A statusData \in StatusAnswers : \A now \in Times :
          handleUpdateStatus_merged(i, statusData, now)
              => /\ Len(DocumentSearch'.results) = Len(DocumentSearch.results)
                 /\ \A r \in 1..Len(DocumentSearch.results) :
                       LET before == DocumentSearch.results[r]
                           after == DocumentSearch'.results[r]
                       IN  /\ after.id = before.id
                           /\ (before.document_id # fetches[i].documentId
                                  \/ before.service # fetches[i].service)
                                 => after = before]_vars

\* C39 witness: the two rows of one document have been refreshed and the row
\* of the other document has not, in a table that is sorted by signer.
C39_Witness ==
    /\ DocumentSearch.sortConfig.key = "signer_email"
    /\ Len(DocumentSearch.results) = 3
    /\ \A r \in 1..3 :
          "updated_at" \in DOMAIN DocumentSearch.results[r]
              <=> DocumentSearch.results[r].document_id = "d1"
    /\ DocumentSearch.results[1].id = 2

-----------------------------------------------------------------------------
(* The in-flight flags of the three screens *)

\* C40: while a request of a screen that is shown is in flight the loading
\* flag of the screen is set, and once no request of it is in flight any more
\* the flag is reset.
C40_LoadingWhileInFlight ==
    /\ Live("status") # {} <=> (DocumentStatus.mounted /\ DocumentStatus.loading)
    /\ Live("sign") # {} <=> (DocumentSigning.mounted /\ DocumentSigning.loading)
    /\ (\E op \in SearchOps : searchFetch(op) # {})
          <=> (DocumentSearch.mounted /\ DocumentSearch.loading)

=============================================================================
